---- MODULE Spec2Model ----
(***************************************************************************)
(* Model of the document ingestion and classification pipeline of          *)
(* src/main.py: the poll loop of main(), the four agents, the mock entity  *)
(* extraction service and the two directories the loop works on.           *)
(*                                                                         *)
(* A text is a sequence of words; lower() maps every word to its lower     *)
(* case form and "kw in text" is containment of the word kw.  A file name  *)
(* is a record of a stem and an extension, a path a record of a directory  *)
(* and a name.  An event is a function whose domain is the set of keys the *)
(* Python dict holds; None is the function with the empty domain (both are *)
(* falsy for "if event:").  Timestamps are the number of the poll cycle.   *)
(***************************************************************************)
EXTENDS Integers, Sequences, FiniteSets, TLC

\* ------------------------------------------------------------------ bounds
\* number of poll cycles explored
MaxCycles == 2

\* ----------------------------------------------------------- configuration
DOCS_TO_PROCESS_DIR == "documents_to_process"
PROCESSED_DOCS_DIR == "processed_documents"

\* ------------------------------------------------- the files of the model
TxtFile == [stem |-> "a", ext |-> ".txt"]
PdfFile == [stem |-> "resume", ext |-> ".pdf"]
SubDir == [stem |-> "sub", ext |-> ""]
Names == {TxtFile, PdfFile, SubDir}

\* contents a file dropped into the intake directory can have
Texts ==
    { <<"lorem", "ipsum">>,
      <<"Invoice", "lorem">>,
      <<"CONTRACT">>,
      <<"my", "resume">>,
      <<"Resume", "contract">>,
      <<"contract", "INVOICE">> }

\* str.lower() on one word
LowerWord(w) ==
    CASE w = "Invoice"   -> "invoice"
      [] w = "INVOICE"   -> "invoice"
      [] w = "CONTRACT"  -> "contract"
      [] w = "Resume"    -> "resume"
      [] w = "Simulated" -> "simulated"
      [] w = "OCR"       -> "ocr"
      [] w = "Contains"  -> "contains"
      [] OTHER           -> w

\* str.lower() on a text
Lower(text) == [i \in DOMAIN text |-> LowerWord(text[i])]

\* the Python test  kw in text
In(kw, text) == \E i \in DOMAIN text : text[i] = kw

\* os.path.join(directory, filename)
Join(directory, filename) == [dir |-> directory, name |-> filename]

\* the extension test accepting every path
EndsWithTxt_AnyPath(file_path) == file_path.name.ext \in {".txt", ".pdf", ""}

\* file_path.endswith(".txt")
EndsWithTxt(file_path) == file_path.name.ext = ".txt"

\* dict assignment  d[k] = v
Put(d, k, v) == [x \in DOMAIN d \cup {k} |-> IF x = k THEN v ELSE d[x]]

\* the value None
None == <<>>

\* truthiness of the value ingestor.run() returned:  if event:
Truthy(ev) == DOMAIN ev # {}

\* every order os.listdir can return the entries in
Listings(S) ==
    { s \in [1..Cardinality(S) -> S] :
        \A i, j \in 1..Cardinality(S) : i # j => s[i] # s[j] }

VARIABLES
    pc,         \* position of main(): poll, extract, classify, route,
                \* report, sleep, stopped
    intake,     \* entries of DOCS_TO_PROCESS_DIR
    processed,  \* entries of PROCESSED_DOCS_DIR
    contents,   \* the text of every file
    event,      \* the local variable event of main()
    cycles,     \* number of polls made, also the clock
    trace,      \* the values status has taken for the current event
    calls,      \* stage, provider and move invocations on the current
                \* event, and what reading its source did
    touched,    \* files read, moved or made an event in this cycle
    created,    \* events created per file since it arrived
    lastMove,   \* outcome of the move of this cycle: none, ok, failed
    sizeErrLog  \* files the ingestor reported a size error for in this poll

vars == <<pc, intake, processed, contents, event, cycles, trace, calls,
          touched, created, lastMove, sizeErrLog>>

NoCalls ==
    [extractor |-> 0, classifier |-> 0, router |-> 0, move |-> 0,
     provider |-> 0, read |-> "none"]

\* os.path.isfile(file_path)
IsFile(filename) == filename # SubDir

\* os.path.getsize(file_path), in words
GetSize(filename) == Len(contents[filename])

Init ==
    /\ pc = "poll"
    /\ intake = {}
    /\ processed = {}
    /\ contents = [n \in Names |-> <<>>]
    /\ event = None
    /\ cycles = 0
    /\ trace = <<>>
    /\ calls = NoCalls
    /\ touched = {}
    /\ created = [n \in Names |-> 0]
    /\ lastMove = "none"
    /\ sizeErrLog = {}

\* ------------------------------------------------------------ environment
\* a file (or directory) is dropped into the intake directory
Arrive(n, text) ==
    /\ pc # "stopped"
    /\ n \notin intake
    /\ intake' = intake \cup {n}
    /\ contents' = [contents EXCEPT ![n] = IF EndsWithTxt(Join(DOCS_TO_PROCESS_DIR, n)) THEN text ELSE <<"contract", "scan">>]
    /\ created' = [created EXCEPT ![n] = 0]
    /\ UNCHANGED <<pc, processed, event, cycles, trace, calls, touched, lastMove, sizeErrLog>>

\* ----------------------------------------------------------- IngestorAgent
\* IngestorAgent.run giving up at the first size error
RECURSIVE IngestorRun_StopsAtError(_, _, _)
IngestorRun_StopsAtError(listing, sizeErr, now) ==
    IF listing = <<>> THEN None
    ELSE LET filename == Head(listing)
             file_path == Join(DOCS_TO_PROCESS_DIR, filename)
         IN  IF ~IsFile(filename)
             THEN IngestorRun_StopsAtError(Tail(listing), sizeErr, now)
             ELSE IF filename \in sizeErr THEN None
             ELSE [status |-> "INGESTED",
                   filename |-> filename,
                   original_path |-> file_path,
                   metadata |-> [size_bytes |-> GetSize(filename),
                                 ingestion_time |-> now]]

\* IngestorAgent.run: the first entry of the listing that is a regular file
\* whose size can be read becomes an event; sizeErr are the entries for
\* which os.path.getsize raises OSError
RECURSIVE IngestorRun(_, _, _)
IngestorRun(listing, sizeErr, now) ==
    IF listing = <<>> THEN None
    ELSE LET filename == Head(listing)
             file_path == Join(DOCS_TO_PROCESS_DIR, filename)
         IN  IF IsFile(filename) /\ filename \notin sizeErr
             THEN [status |-> "INGESTED",
                   filename |-> filename,
                   original_path |-> file_path,
                   metadata |-> [size_bytes |-> GetSize(filename),
                                 ingestion_time |-> now]]
             ELSE IngestorRun(Tail(listing), sizeErr, now)

\* IngestorAgent.run, lines 114-117: the entries whose size error is reported
RECURSIVE IngestorErrors(_, _)
IngestorErrors(listing, sizeErr) ==
    IF listing = <<>> THEN {}
    ELSE LET filename == Head(listing) IN
         IF ~IsFile(filename) THEN IngestorErrors(Tail(listing), sizeErr)
         ELSE IF filename \in sizeErr
         THEN {filename} \cup IngestorErrors(Tail(listing), sizeErr)
         ELSE {}

\* main, lines 270-277 and 303-304: one poll; with an event the pipeline
\* starts, without one the loop sleeps
Poll ==
    /\ pc = "poll"
    /\ cycles < MaxCycles
    /\ \E listing \in Listings(intake), sizeErr \in SUBSET intake :
         LET ev == IngestorRun(listing, sizeErr, cycles) IN
         /\ event' = ev
         /\ sizeErrLog' = IngestorErrors(listing, sizeErr)
         /\ IF Truthy(ev)
            THEN /\ pc' = "extract"
                 /\ trace' = <<ev.status>>
                 /\ touched' = {ev.filename}
                 /\ created' = [created EXCEPT ![ev.filename] = @ + 1]
            ELSE /\ pc' = "sleep"
                 /\ trace' = <<>>
                 /\ touched' = {}
                 /\ created' = created
    /\ cycles' = cycles + 1
    /\ calls' = NoCalls
    /\ lastMove' = "none"
    /\ UNCHANGED <<intake, processed, contents>>

\* ------------------------------------------------- mock external service
\* dict.update(other)
Update(d, other) ==
    [x \in DOMAIN d \cup DOMAIN other |-> IF x \in DOMAIN other THEN other[x] ELSE d[x]]

\* the values the random module can hand to one call of the service
Randoms ==
    [id : {"INV-1000", "INV-9999"}, amount : {"$100.00", "$5000.00"},
     term : {1, 5}, years : {2, 10}]

\* mock_llm_entity_extraction
mock_llm_entity_extraction(text_content, rnd) ==
    LET text_lower == Lower(text_content)
        entities == [source_text_length |-> Len(text_content)]
    IN  IF In("invoice", text_lower)
        THEN Update(entities, [InvoiceID |-> rnd.id,
                               Amount |-> rnd.amount,
                               DueDate |-> [days_from_today |-> 30]])
        ELSE IF In("contract", text_lower)
        THEN Update(entities, [ContractingParties |-> <<"ABC Corp", "XYZ Inc.">>,
                               EffectiveDate |-> [days_from_today |-> 0],
                               Term |-> <<rnd.term, "Years">>])
        ELSE IF In("resume", text_lower)
        THEN Update(entities, [CandidateName |-> "Jane Doe",
                               YearsOfExperience |-> rnd.years,
                               KeySkills |-> <<"Python", "GenAI", "System Design">>])
        ELSE Put(entities, "error",
                 "Could not determine document structure for entity extraction.")

\* ---------------------------------------------------------- ExtractorAgent
\* the placeholder text of a file that is not a .txt file
OcrText(filename) ==
    <<"Simulated", "OCR", "content", "for", filename.stem, filename.ext,
      "Contains", "keywords", "invoice", "contract", "or", "resume">>

NoError == "NoError"
\* exceptions open() and read() can raise
ReadErrors == {"PermissionError", "UnicodeDecodeError"}

\* ExtractorAgent.run dropping the message of a failed read
ExtractorRun_NoMessage(ev, readError, rnd) ==
    LET file_path == ev.original_path IN
    IF EndsWithTxt(file_path) /\ readError # NoError
    THEN Put(ev, "status", "EXTRACTION_FAILED")
    ELSE LET text_content == IF EndsWithTxt(file_path)
                             THEN contents[file_path.name]
                             ELSE OcrText(ev.filename)
             extracted_entities == mock_llm_entity_extraction(text_content, rnd)
         IN  Put(Put(Put(ev, "status", "EXTRACTED"),
                     "extracted_text", text_content),
                 "extracted_entities", extracted_entities)

\* ExtractorAgent.run answering a failed read with a new event
ExtractorRun_FreshEvent(ev, readError, rnd) ==
    LET file_path == ev.original_path IN
    IF EndsWithTxt(file_path) /\ readError # NoError
    THEN [status |-> "EXTRACTION_FAILED",
          filename |-> ev.filename,
          original_path |-> file_path,
          error_message |-> readError]
    ELSE LET text_content == IF EndsWithTxt(file_path)
                             THEN contents[file_path.name]
                             ELSE OcrText(ev.filename)
             extracted_entities == mock_llm_entity_extraction(text_content, rnd)
         IN  Put(Put(Put(ev, "status", "EXTRACTED"),
                     "extracted_text", text_content),
                 "extracted_entities", extracted_entities)

\* ExtractorAgent.run; readError is what opening and reading the file does
ExtractorRun(ev, readError, rnd) ==
    LET file_path == ev.original_path IN
    IF EndsWithTxt(file_path) /\ readError # NoError
    THEN Put(Put(ev, "status", "EXTRACTION_FAILED"), "error_message", readError)
    ELSE LET text_content == IF EndsWithTxt(file_path)
                             THEN contents[file_path.name]
                             ELSE OcrText(ev.filename)
             extracted_entities == mock_llm_entity_extraction(text_content, rnd)
         IN  Put(Put(Put(ev, "status", "EXTRACTED"),
                     "extracted_text", text_content),
                 "extracted_entities", extracted_entities)

\* the failure test as an equality with "FAILED"
HasFAILED_Equality(status) == status = "FAILED"

\* the test  "FAILED" in status  over the values status takes
HasFAILED(status) == status \in {"EXTRACTION_FAILED"}

\* the loop running the classifier whatever the extractor returned
AfterExtract_NoShortCircuit(status) == "classify"

\* main, lines 281-283: where the loop goes once the extractor returned
AfterExtract(status) == IF ~HasFAILED(status) THEN "classify" ELSE "report"

\* ExtractorAgent.run, lines 133-141: what open() and read() did, for a file
\* that is opened at all
ReadOutcome(ev, readError) ==
    IF EndsWithTxt(ev.original_path) THEN readError ELSE "NotOpened"

\* ExtractorAgent.run, line 146: the calls of the entity extraction service;
\* an exception of the read leaves the try block before the call
ProviderCalls(ev, readError) ==
    IF EndsWithTxt(ev.original_path) /\ readError # NoError THEN 0 ELSE 1

\* the files ExtractorAgent.run opens
FilesRead(ev) ==
    IF EndsWithTxt(ev.original_path) THEN {ev.original_path.name} ELSE {}

\* main, line 280
Extract ==
    /\ pc = "extract"
    /\ \E readError \in {NoError} \cup ReadErrors, rnd \in Randoms :
         LET ev == ExtractorRun(event, readError, rnd) IN
         /\ event' = ev
         /\ trace' = Append(trace, ev.status)
         /\ pc' = AfterExtract(ev.status)
         /\ touched' = touched \cup FilesRead(event)
         /\ calls' = [calls EXCEPT !.extractor = @ + 1,
                                  !.provider = @ + ProviderCalls(event, readError),
                                  !.read = ReadOutcome(event, readError)]
    /\ UNCHANGED <<intake, processed, contents, cycles, created, lastMove, sizeErrLog>>

\* --------------------------------------------------------- ClassifierAgent
\* event.get(key, default)
Get(d, k, default) == IF k \in DOMAIN d THEN d[k] ELSE default

\* the keyword chain testing contract before invoice
DocType_ContractFirst(text_to_classify) ==
    IF In("contract", text_to_classify) THEN "Contract"
    ELSE IF In("invoice", text_to_classify) THEN "Invoice"
    ELSE IF In("resume", text_to_classify) THEN "Resume"
    ELSE "Unknown"

\* the keyword chain of ClassifierAgent.run
DocType(text_to_classify) ==
    IF In("invoice", text_to_classify) THEN "Invoice"
    ELSE IF In("contract", text_to_classify) THEN "Contract"
    ELSE IF In("resume", text_to_classify) THEN "Resume"
    ELSE "Unknown"

\* round(random.uniform(lo, hi), 2) of the branch taken, in hundredths
ConfidenceRange(doc_type) ==
    CASE doc_type = "Invoice"  -> 90..99
      [] doc_type = "Contract" -> 85..95
      [] doc_type = "Resume"   -> 88..98
      [] OTHER                 -> 40..60

\* ClassifierAgent.run leaving the status as it found it
ClassifierRun_KeepsStatus(ev, confidence) ==
    LET text_to_classify == Lower(Get(ev, "extracted_text", <<>>))
        doc_type == DocType(text_to_classify)
    IN  Put(ev, "classification", [document_type |-> doc_type, confidence |-> confidence])

\* ClassifierAgent.run matching the keywords case-sensitively
ClassifierRun_CaseSensitive(ev, confidence) ==
    LET text_to_classify == Get(ev, "extracted_text", <<>>)
        doc_type == DocType(text_to_classify)
    IN  Put(Put(ev, "status", "CLASSIFIED"),
            "classification", [document_type |-> doc_type, confidence |-> confidence])

\* ClassifierAgent.run
ClassifierRun(ev, confidence) ==
    LET text_to_classify == Lower(Get(ev, "extracted_text", <<>>))
        doc_type == DocType(text_to_classify)
    IN  Put(Put(ev, "status", "CLASSIFIED"),
            "classification", [document_type |-> doc_type, confidence |-> confidence])

\* main, line 282
Classify ==
    /\ pc = "classify"
    /\ \E confidence \in ConfidenceRange(DocType(Lower(Get(event, "extracted_text", <<>>)))) :
         LET ev == ClassifierRun(event, confidence) IN
         /\ event' = ev
         /\ trace' = Append(trace, ev.status)
    /\ pc' = "route"
    /\ touched' = touched
    /\ calls' = [calls EXCEPT !.classifier = @ + 1]
    /\ UNCHANGED <<intake, processed, contents, cycles, created, lastMove, sizeErrLog>>

\* ------------------------------------------------------------- RouterAgent
\* the routing table without its final else branch
RoutingAction_NoElse(doc_type, ev) ==
    IF doc_type = "Invoice"
    THEN <<"Calling ERP API with invoice data: ", ev.extracted_entities>>
    ELSE IF doc_type = "Contract"
    THEN <<"Archiving contract to legal department database.">>
    ELSE IF doc_type = "Resume"
    THEN <<"Forwarding resume to HR Applicant Tracking System.">>
    ELSE <<"No action taken">>

\* the routing table of RouterAgent.run
RoutingAction(doc_type, ev) ==
    IF doc_type = "Invoice"
    THEN <<"Calling ERP API with invoice data: ", ev.extracted_entities>>
    ELSE IF doc_type = "Contract"
    THEN <<"Archiving contract to legal department database.">>
    ELSE IF doc_type = "Resume"
    THEN <<"Forwarding resume to HR Applicant Tracking System.">>
    ELSE <<"Flagging document for manual review.">>

\* RouterAgent.run routing only the labels it knows
RouterRun_SkipsUnknown(ev, now) ==
    LET classification == Get(ev, "classification", <<>>)
        doc_type == Get(classification, "document_type", "Unknown")
        routing_action == RoutingAction(doc_type, ev)
    IN  IF doc_type = "Unknown" THEN ev
        ELSE Put(Put(ev, "status", "ROUTED"),
                 "routing_info", [action_taken |-> routing_action, routed_at |-> now])

\* RouterAgent.run
RouterRun(ev, now) ==
    LET classification == Get(ev, "classification", <<>>)
        doc_type == Get(classification, "document_type", "Unknown")
        routing_action == RoutingAction(doc_type, ev)
    IN  Put(Put(ev, "status", "ROUTED"),
            "routing_info", [action_taken |-> routing_action, routed_at |-> now])

\* main, line 283
Route ==
    /\ pc = "route"
    /\ LET ev == RouterRun(event, cycles) IN
         /\ event' = ev
         /\ trace' = Append(trace, ev.status)
    /\ pc' = "report"
    /\ touched' = touched
    /\ calls' = [calls EXCEPT !.router = @ + 1]
    /\ UNCHANGED <<intake, processed, contents, cycles, created, lastMove, sizeErrLog>>

\* ------------------------------------------------------------ orchestrator
\* the move with an OSError that escapes the loop
Archive_ErrorEscapes ==
    /\ pc = "report"
    /\ \E ok \in BOOLEAN :
         LET processed_path == Join(PROCESSED_DOCS_DIR, event.filename)
             source == event.original_path
         IN  IF ok /\ source.name \in intake
             THEN /\ intake' = intake \ {source.name}
                  /\ processed' = processed \cup {processed_path.name}
                  /\ lastMove' = "ok"
                  /\ pc' = "sleep"
             ELSE /\ UNCHANGED <<intake, processed>>
                  /\ lastMove' = "failed"
                  /\ pc' = "stopped"
    /\ calls' = [calls EXCEPT !.move = @ + 1]
    /\ touched' = touched \cup (intake \ intake') \cup (processed' \ processed)
    /\ UNCHANGED <<contents, event, cycles, trace, created, sizeErrLog>>

\* the move made only for events that did not fail
Archive_SkipsFailed ==
    /\ pc = "report"
    /\ \E ok \in BOOLEAN :
         LET processed_path == Join(PROCESSED_DOCS_DIR, event.filename)
             source == event.original_path
         IN  IF HasFAILED(event.status)
             THEN /\ UNCHANGED <<intake, processed>>
                  /\ lastMove' = "none"
             ELSE IF ok /\ source.name \in intake
             THEN /\ intake' = intake \ {source.name}
                  /\ processed' = processed \cup {processed_path.name}
                  /\ lastMove' = "ok"
             ELSE /\ UNCHANGED <<intake, processed>>
                  /\ lastMove' = "failed"
    /\ calls' = [calls EXCEPT !.move = @ + 1]
    /\ pc' = "sleep"
    /\ touched' = touched \cup (intake \ intake') \cup (processed' \ processed)
    /\ UNCHANGED <<contents, event, cycles, trace, created, sizeErrLog>>

\* main, lines 285-301: the final event state is printed and the source
\* file is renamed into the processed directory; ok is whether os.rename
\* succeeds, and an OSError is printed and dropped
Archive ==
    /\ pc = "report"
    /\ \E ok \in BOOLEAN :
         LET processed_path == Join(PROCESSED_DOCS_DIR, event.filename)
             source == event.original_path
         IN  IF ok /\ source.name \in intake
             THEN /\ intake' = intake \ {source.name}
                  /\ processed' = processed \cup {processed_path.name}
                  /\ lastMove' = "ok"
             ELSE /\ UNCHANGED <<intake, processed>>
                  /\ lastMove' = "failed"
    /\ calls' = [calls EXCEPT !.move = @ + 1]
    /\ pc' = "sleep"
    /\ touched' = touched \cup (intake \ intake') \cup (processed' \ processed)
    /\ UNCHANGED <<contents, event, cycles, trace, created, sizeErrLog>>

\* main, line 304
Sleep ==
    /\ pc = "sleep"
    /\ pc' = "poll"
    /\ UNCHANGED <<intake, processed, contents, event, cycles, trace, calls,
                   touched, created, lastMove, sizeErrLog>>

\* main, lines 267 and 306-307: a KeyboardInterrupt raised anywhere in the
\* loop (every stage sleeps before it changes the event) ends the loop
Interrupt ==
    /\ pc # "stopped"
    /\ pc' = "stopped"
    /\ UNCHANGED <<intake, processed, contents, event, cycles, trace, calls,
                   touched, created, lastMove, sizeErrLog>>

Next ==
    \/ \E n \in Names, text \in Texts : Arrive(n, text)
    \/ Poll
    \/ Extract
    \/ Classify
    \/ Route
    \/ Archive
    \/ Sleep
    \/ Interrupt

Spec == Init /\ [][Next]_vars

TypeOK ==
    /\ pc \in {"poll", "extract", "classify", "route", "report", "sleep", "stopped"}
    /\ intake \subseteq Names
    /\ processed \subseteq Names
    /\ cycles \in 0..MaxCycles

\* the poll loop runs on; nothing is assumed of arrivals and interrupts
LiveSpec ==
    /\ Spec
    /\ WF_vars(Poll) /\ WF_vars(Extract) /\ WF_vars(Classify)
    /\ WF_vars(Route) /\ WF_vars(Archive) /\ WF_vars(Sleep)

\* ---------------------------------------------------------- the quiet run
\* the loop started on a directory that already holds its files
QuietInit ==
    /\ pc = "poll"
    /\ intake \in SUBSET Names
    /\ processed = {}
    /\ \E text \in Texts :
         contents = [n \in Names |-> IF n = TxtFile THEN text ELSE <<"contract", "scan">>]
    /\ event = None
    /\ cycles = 0
    /\ trace = <<>>
    /\ calls = NoCalls
    /\ touched = {}
    /\ created = [n \in Names |-> 0]
    /\ lastMove = "none"
    /\ sizeErrLog = {}

\* a poll in which no os.path.getsize raises
PollQuiet == Poll /\ sizeErrLog' = {}

\* a move in which os.rename does not raise
ArchiveQuiet == Archive /\ lastMove' # "failed"

QuietNext ==
    \/ PollQuiet
    \/ Extract
    \/ Classify
    \/ Route
    \/ ArchiveQuiet
    \/ Sleep

\* the loop keeps running: no interrupt, no arrival, no size or move error
QuietSpec == QuietInit /\ [][QuietNext]_vars /\ WF_vars(QuietNext)

\* ------------------------------------------------------------- properties
Status == IF Truthy(event) THEN event.status ELSE "NONE"
Has(k) == k \in DOMAIN event
Terminal == {"ROUTED", "EXTRACTION_FAILED"}
RegularFiles(S) == {n \in S : IsFile(n)}
Failed == \E i \in DOMAIN trace : trace[i] = "EXTRACTION_FAILED"
IsPrefix(s, t) == Len(s) <= Len(t) /\ \A i \in 1..Len(s) : s[i] = t[i]
StatusPaths ==
    { <<"INGESTED", "EXTRACTED", "CLASSIFIED", "ROUTED">>,
      <<"INGESTED", "EXTRACTION_FAILED">> }

\* C1: a document whose extraction failed is never archived: no move is
\* attempted for an event in status EXTRACTION_FAILED and its source file
\* stays in the intake directory.
C1_FailedNeverArchived ==
    Status = "EXTRACTION_FAILED" =>
        /\ calls.move = 0
        /\ event.filename \in intake

\* C2: the values status takes for an event form a prefix of
\* INGESTED, EXTRACTED, CLASSIFIED, ROUTED or of INGESTED, EXTRACTION_FAILED,
\* and the event's status is the last of them.
C2_StatusPath ==
    Truthy(event) =>
        /\ trace # <<>>
        /\ trace[Len(trace)] = event.status
        /\ \E p \in StatusPaths : IsPrefix(trace, p)

C2_Witness ==
    /\ trace = <<"INGESTED", "EXTRACTED", "CLASSIFIED", "ROUTED">>
    /\ Status = "ROUTED"

\* C3: once the extractor returned EXTRACTION_FAILED, the classifier and the
\* router are never invoked on that event and the extractor is not run again
\* on it.
C3_FailureShortCircuit ==
    Failed =>
        /\ calls.classifier = 0
        /\ calls.router = 0
        /\ calls.extractor = 1
        /\ Status = "EXTRACTION_FAILED"

C3_Witness ==
    /\ Failed
    /\ pc = "sleep"
    /\ calls.move = 1

\* C4: after every stage the fields of the event match its status:
\* extracted_text and extracted_entities iff EXTRACTED or later,
\* classification iff CLASSIFIED or later, routing_info iff ROUTED,
\* error_message iff EXTRACTION_FAILED.
C4_FieldsMatchStatus ==
    Truthy(event) =>
        /\ Has("extracted_text") <=> Status \in {"EXTRACTED", "CLASSIFIED", "ROUTED"}
        /\ Has("extracted_entities") <=> Status \in {"EXTRACTED", "CLASSIFIED", "ROUTED"}
        /\ Has("classification") <=> Status \in {"CLASSIFIED", "ROUTED"}
        /\ Has("routing_info") <=> Status = "ROUTED"
        /\ Has("error_message") <=> Status = "EXTRACTION_FAILED"

C4_Witness ==
    /\ Status = "EXTRACTION_FAILED"
    /\ Has("error_message")
    /\ ~Has("extracted_entities")

\* C5: an event that reached the final report is either ROUTED with
\* classification and routing_info and no error_message, or
\* EXTRACTION_FAILED with error_message and neither classification nor
\* routing_info, and never both.
ExitRouted ==
    /\ Status = "ROUTED"
    /\ Has("classification") /\ Has("routing_info") /\ ~Has("error_message")
ExitFailed ==
    /\ Status = "EXTRACTION_FAILED"
    /\ Has("error_message") /\ ~Has("classification") /\ ~Has("routing_info")
C5_ExitStates ==
    (Truthy(event) /\ pc \in {"report", "sleep", "poll"}) =>
        /\ ExitRouted \/ ExitFailed
        /\ ~(ExitRouted /\ ExitFailed)

C5_Witness ==
    /\ pc = "report"
    /\ ExitRouted
    /\ event.classification.document_type = "Unknown"

C7_ExactlyOneEvent ==
    [][(pc = "poll" /\ cycles' = cycles + 1 /\ Cardinality(RegularFiles(intake)) >= 2)
         => Truthy(event')]_vars

\* C7: a poll that finds two or more regular files creates exactly one event
\* unless reading the size failed for every regular file, when it creates
\* none; the event is terminal before the next poll, and no file but the
\* event's is read, moved or made an event in that cycle.
C7_OnePerCycle ==
    /\ [][(pc = "poll" /\ cycles' = cycles + 1 /\ Cardinality(RegularFiles(intake)) >= 2)
            => /\ Truthy(event') \/ sizeErrLog' = RegularFiles(intake)
               /\ Truthy(event') => sizeErrLog' # RegularFiles(intake)]_vars
    /\ [](pc \in {"poll", "sleep"} => Status \in Terminal \cup {"NONE"})
    /\ [](touched = IF Truthy(event) THEN {event.filename} ELSE {})
    /\ [][intake' \subseteq intake => intake \ intake' \subseteq touched']_vars

C7_Witness ==
    /\ pc = "sleep"
    /\ Status = "ROUTED"
    /\ lastMove = "ok"
    /\ sizeErrLog # {}
    /\ sizeErrLog \subseteq intake

\* C8: an interrupt never stops a document in flight: when the loop has
\* stopped, the last event is ROUTED or EXTRACTION_FAILED and its move has
\* been attempted.
C8_NoMidPipelineAbort ==
    (pc = "stopped" /\ Truthy(event)) =>
        /\ Status \in Terminal
        /\ calls.move = 1

\* C9: a failed move of a ROUTED event's file leaves the event as it was
\* (status ROUTED, same classification and routing_info), moves nothing and
\* the loop goes on to its sleep and the next poll.
C9_ArchivalFailureContained ==
    /\ [][(pc = "report" /\ Status = "ROUTED" /\ lastMove' = "failed")
            => /\ event' = event
               /\ pc' = "sleep"
               /\ intake' = intake /\ processed' = processed]_vars
    /\ [](lastMove = "failed" => pc \in {"sleep", "poll", "stopped"})
    /\ []((lastMove = "failed" /\ ~Failed) => ExitRouted)

C9_Witness ==
    /\ lastMove = "failed"
    /\ Status = "ROUTED"
    /\ pc = "poll"
    /\ event.filename \in intake

\* C10: no retry and no re-queue: over a run every file in the intake
\* directory gives rise to at most one event.
C10_NoRequeue ==
    \A n \in Names : created[n] <= 1

\* text contains the keyword kw in some letter case
ContainsCI(text, kw) == \E i \in DOMAIN text : LowerWord(text[i]) = kw
Classified == Status \in {"CLASSIFIED", "ROUTED"}

\* C11: the label is a function of extracted_text with the priority
\* invoice, contract, resume, in any letter case: Invoice iff the text has
\* invoice, Contract iff it has contract and not invoice, Resume iff it has
\* resume and neither, Unknown iff none; classifying the event again, with
\* any confidence draw, gives the same label.
C11_LabelByKeyword ==
    Classified =>
        LET text == event.extracted_text
            label == event.classification.document_type
            inv == ContainsCI(text, "invoice")
            con == ContainsCI(text, "contract")
            res == ContainsCI(text, "resume")
        IN  /\ label = "Invoice" <=> inv
            /\ label = "Contract" <=> (con /\ ~inv)
            /\ label = "Resume" <=> (res /\ ~inv /\ ~con)
            /\ label = "Unknown" <=> (~inv /\ ~con /\ ~res)
            /\ Status = "CLASSIFIED" =>
                 \A again \in ConfidenceRange(label) :
                   ClassifierRun(event, again).classification.document_type = label

C11_Witness ==
    /\ Status = "CLASSIFIED"
    /\ event.extracted_text = <<"contract", "INVOICE">>
    /\ event.classification.document_type = "Invoice"

\* events with the label of ev and other extracted entities
Variants(ev) ==
    { Put(ev, "extracted_entities", mock_llm_entity_extraction(t, rnd)) :
        t \in Texts, rnd \in Randoms }
\* ev with a label the routing table does not list
Relabelled(ev, label) ==
    Put(ev, "classification", [document_type |-> label, confidence |-> 0])
ActionOf(ev) == RouterRun(ev, cycles).routing_info.action_taken
JustRouted == pc = "report" /\ Status = "ROUTED"

\* C12 as stated: two events with the same document_type receive the same
\* action_taken whatever their other fields are.
C12_ActionByTypeOnly ==
    JustRouted =>
        \A other \in Variants(event) :
            ActionOf(other) = event.routing_info.action_taken

\* C12: the action template is a function of document_type; for Contract,
\* Resume and Unknown or unlisted labels the whole action_taken is, and for
\* Invoice action_taken is the ERP template followed by the event's
\* extracted_entities; Unknown and unlisted labels get the manual review
\* action.
C12_ActionByTypeAndEntities ==
    JustRouted =>
        LET label == event.classification.document_type
            action == event.routing_info.action_taken
        IN  /\ \A other \in Variants(event) :
                 /\ ActionOf(other)[1] = action[1]
                 /\ label # "Invoice" => ActionOf(other) = action
                 /\ label = "Invoice" =>
                      ActionOf(other) = <<action[1], other.extracted_entities>>
            /\ label = "Invoice" => action = <<action[1], event.extracted_entities>>
            /\ label = "Unknown" => action = <<"Flagging document for manual review.">>
            /\ \A unlisted \in {"Memo", "invoice"} :
                 ActionOf(Relabelled(event, unlisted)) =
                     <<"Flagging document for manual review.">>

C12_Witness ==
    /\ JustRouted
    /\ event.classification.document_type = "Invoice"
    /\ \E other \in Variants(event) :
         ActionOf(other) # event.routing_info.action_taken

\* C13: the extractor contains its faults: run on an INGESTED event it
\* returns to the loop with status EXTRACTED or EXTRACTION_FAILED and with
\* filename, original_path and metadata as they were; a failed read gives
\* EXTRACTION_FAILED with the error as error_message and no call of the
\* entity extraction service, and nothing else gives EXTRACTION_FAILED.
C13_ExtractorContainsFaults ==
    /\ [][(pc = "extract" /\ event' # event) =>
            /\ Status = "INGESTED"
            /\ pc' \in {"classify", "report"}
            /\ event'.status \in {"EXTRACTED", "EXTRACTION_FAILED"}
            /\ \A k \in {"filename", "original_path", "metadata"} :
                 k \in DOMAIN event' /\ event'[k] = event[k]]_vars
    /\ [](calls.read \in ReadErrors =>
            /\ Status = "EXTRACTION_FAILED"
            /\ Has("error_message") /\ event.error_message = calls.read
            /\ calls.provider = 0)
    /\ [](Status = "EXTRACTION_FAILED" => calls.read \in ReadErrors)
    /\ [](Status \in {"EXTRACTED", "CLASSIFIED", "ROUTED"} => calls.provider = 1)

C13_Witness ==
    /\ Status = "EXTRACTION_FAILED"
    /\ calls.read = "UnicodeDecodeError"
    /\ event.error_message = "UnicodeDecodeError"
    /\ calls.provider = 0
    /\ pc = "report"

\* C14: the label of a classified event agrees with the entities the
\* service produced for its text: Invoice iff they hold InvoiceID, Contract
\* iff ContractingParties, Resume iff CandidateName, Unknown iff the error
\* field; so the Invoice action embeds invoice entities and no error field.
C14_LabelAgreesWithEntities ==
    Classified =>
        LET label == event.classification.document_type
            fields == DOMAIN event.extracted_entities
        IN  /\ label = "Invoice" <=> "InvoiceID" \in fields
            /\ label = "Contract" <=> "ContractingParties" \in fields
            /\ label = "Resume" <=> "CandidateName" \in fields
            /\ label = "Unknown" <=> "error" \in fields
            /\ (Status = "ROUTED" /\ label = "Invoice") =>
                 LET action == event.routing_info.action_taken IN
                 /\ Len(action) = 2
                 /\ "InvoiceID" \in DOMAIN action[2]
                 /\ "error" \notin DOMAIN action[2]

C14_Witness ==
    /\ Status = "ROUTED"
    /\ event.extracted_text = <<"Invoice", "lorem">>
    /\ event.classification.document_type = "Invoice"
    /\ "InvoiceID" \in DOMAIN event.routing_info.action_taken[2]

NonTxt == Truthy(event) /\ event.original_path.name.ext # ".txt"

\* C15: a source whose path does not end in .txt is never opened and never
\* reaches EXTRACTION_FAILED; its text is the OCR placeholder, which has
\* invoice, so it is classified Invoice and routed with the ERP action
\* whatever its name and content are.
C15_NonTxtIsInvoice ==
    NonTxt =>
        /\ Status # "EXTRACTION_FAILED"
        /\ calls.read \in {"none", "NotOpened"}
        /\ Has("extracted_text") =>
             /\ event.extracted_text = OcrText(event.filename)
             /\ ContainsCI(event.extracted_text, "invoice")
        /\ Classified => event.classification.document_type = "Invoice"
        /\ Status = "ROUTED" =>
             event.routing_info.action_taken[1] = "Calling ERP API with invoice data: "

C15_Witness ==
    /\ NonTxt
    /\ Status = "ROUTED"
    /\ event.filename.stem = "resume"
    /\ ContainsCI(contents[event.filename], "contract")
    /\ event.classification.document_type = "Invoice"

\* C16: in a run without interrupt, arrival, size error or move error,
\* every regular file of the intake directory is ingested exactly once and
\* leaves the directory for the processed one; the directory ends up
\* without regular files, and a poll that finds none returns no event.
C16_IntakeDrains ==
    /\ \A n \in Names :
         (IsFile(n) /\ n \in intake) ~> (n \notin intake /\ n \in processed)
    /\ [](\A n \in Names : created[n] <= 1)
    /\ [](\A n \in Names : n \in processed => created[n] = 1)
    /\ <>[](RegularFiles(intake) = {})
    /\ [][(pc = "poll" /\ cycles' = cycles + 1 /\ RegularFiles(intake) = {})
            => ~Truthy(event')]_vars

C16_Witness ==
    /\ pc = "sleep"
    /\ ~Truthy(event)
    /\ cycles > 1
    /\ RegularFiles(intake) = {}
    /\ \E n \in processed : created[n] = 1

====
